---------------------------- MODULE Spec2Model ----------------------------
(***************************************************************************)
(* State-machine model of src/app.py: the analysis pipeline                *)
(* (index / api_analyze -> perform_analysis -> compute_bias ->             *)
(* save_analysis), the SQLite-backed record store (analyses table) and     *)
(* the history queries.                                                    *)
(*                                                                         *)
(* Strings whose content the code inspects (labels, urls, texts) are       *)
(* sequences of one-character strings.  A sentiment score is the integer   *)
(* number of ten-thousandths (0.9 is 9000).  compute_bias's running float  *)
(* is carried in units of 1/100000.                                        *)
(***************************************************************************)
EXTENDS Integers, Sequences, FiniteSets, TLC

VARIABLES
    analyses,         \* committed rows of table analyses (a set of records)
    sqlite_sequence,  \* AUTOINCREMENT high-water mark of table analyses
    db_lock,          \* worker holding SQLite's write lock, 0 when free
    clock,            \* datetime.utcnow(), a logical tick
    pc,               \* per worker: position in the request handler
    req,              \* per worker: locals of the handler / perform_analysis
    pending,          \* per worker: row inserted but not yet committed
    c_lastrowid,      \* per worker: cursor.lastrowid of the current request
    response,         \* per worker: what the handler returned to the client
    nreq,             \* number of requests accepted so far
    log,              \* history: (rowid, arguments) of every save_analysis call made
    op,               \* store specification: last operation called
    ret,              \* store specification: value the last operation returned
    b_in,             \* bias specification: arguments of compute_bias
    b_out             \* bias specification: value compute_bias returned

vars == <<analyses, sqlite_sequence, db_lock, clock, pc, req, pending,
          c_lastrowid, response, nreq, log, op, ret, b_in, b_out>>

\* Python None, and a slot that holds no value yet
None == [type |-> "NoneType"]

-----------------------------------------------------------------------------
(* Python str operations used by the code *)

Min(a, b) == IF a < b THEN a ELSE b
Max(a, b) == IF a > b THEN a ELSE b

LowerChars == <<"a","b","c","d","e","f","g","h","i","j","k","l","m",
                "n","o","p","q","r","s","t","u","v","w","x","y","z">>
UpperChars == <<"A","B","C","D","E","F","G","H","I","J","K","L","M",
                "N","O","P","Q","R","S","T","U","V","W","X","Y","Z">>

ToLower == [c \in {UpperChars[k] : k \in 1..26} |->
                LowerChars[CHOOSE k \in 1..26 : UpperChars[k] = c]]
ToUpper == [c \in {LowerChars[k] : k \in 1..26} |->
                UpperChars[CHOOSE k \in 1..26 : LowerChars[k] = c]]

\* str.lower() on ASCII text
lower(s) == [i \in 1..Len(s) |-> IF s[i] \in DOMAIN ToLower THEN ToLower[s[i]] ELSE s[i]]

\* str.upper() on ASCII text
upper(s) == [i \in 1..Len(s) |-> IF s[i] \in DOMAIN ToUpper THEN ToUpper[s[i]] ELSE s[i]]

\* needle in hay
Contains(hay, needle) ==
    \E i \in 0..(Len(hay) - Len(needle)) :
        \A j \in 1..Len(needle) : hay[i + j] = needle[j]

Whitespace == {" ", "\n", "\t"}

\* str.strip(): drop leading and trailing whitespace
strip(s) ==
    LET keep == {i \in 1..Len(s) : s[i] \notin Whitespace}
    IN  IF keep = {} THEN <<>>
        ELSE LET lo == CHOOSE i \in keep : \A j \in keep : i <= j
                 hi == CHOOSE i \in keep : \A j \in keep : i >= j
             IN  SubSeq(s, lo, hi)

\* s[:n]
Prefix(s, n) == SubSeq(s, 1, Min(Len(s), n))

-----------------------------------------------------------------------------
(* compute_bias, src/app.py:140-179 *)

positive == <<"p","o","s","i","t","i","v","e">>
negative == <<"n","e","g","a","t","i","v","e">>

ShortTextLen == 500
LongTextLen == 3000

LabelPro == "Muhtemel pozitif tarafli (pro)"
LabelAnti == "Muhtemel negatif tarafli (anti)"
LabelNeutral == "Goreceli olarak tarafsiz / notr"
LabelShort == " - kisa metin (dusuk guven)"

\* base and bias_label chosen by the if / elif / else on label_lower
BiasBase(sentiment_label) ==
    LET label_lower == lower(sentiment_label)
    IN  IF Contains(label_lower, positive) THEN [base |-> 70, bias_label |-> <<LabelPro>>]
        ELSE IF Contains(label_lower, negative) THEN [base |-> 70, bias_label |-> <<LabelAnti>>]
        ELSE [base |-> 20, bias_label |-> <<LabelNeutral>>]

\* base + (sentiment_score - 0.5) * 60 in units of 1/100000.  Python floats are
\* IEEE-754 doubles: for base 20 the doubles nearest 0.35 and 0.7 lie below the
\* decimals, and the sum lands one ulp under the integer (10.999..., 31.999...);
\* everywhere else on the ten-thousandths grid the double result truncates as
\* the exact decimal does.
DoubleShortfall(base, sentiment_score) ==
    IF base = 20 /\ sentiment_score \in {3500, 7000} THEN 1 ELSE 0

RawScore(base, sentiment_score) ==
    base * 100000 + (sentiment_score - 5000) * 600 - DoubleShortfall(base, sentiment_score)

\* x * 0.7, rounded toward zero to the unit
TimesPointSeven(x) ==
    IF x >= 0 THEN (x * 7) \div 10 ELSE 0 - (((0 - x) * 7) \div 10)

\* the clamp without its max(0, ...)
ClampNoFloor(x) == Min(100 * 100000, x)

\* min(100, max(0, bias_score))
Clamp(x) == Min(100 * 100000, Max(0, x))

\* int(x) of a float in units of 1/100000: the fractional part is dropped
IntOf(x) == IF x >= 0 THEN x \div 100000 ELSE 0 - ((0 - x) \div 100000)

\* compute_bias with the long-text bonus granted from 0.7 on (>= for >)
compute_bias_bonus_ge(sentiment_label, sentiment_score, text_length) ==
    LET b  == BiasBase(sentiment_label)
        s0 == RawScore(b.base, sentiment_score)
        s1 == IF text_length < ShortTextLen THEN TimesPointSeven(s0) ELSE s0
        l1 == IF text_length < ShortTextLen THEN b.bias_label \o <<LabelShort>>
              ELSE b.bias_label
        s2 == IF text_length > LongTextLen /\ sentiment_score >= 7000
              THEN s1 + 10 * 100000 ELSE s1
    IN  [bias_score |-> IntOf(Clamp(s2)), bias_label |-> l1]

compute_bias(sentiment_label, sentiment_score, text_length) ==
    LET b  == BiasBase(sentiment_label)
        s0 == RawScore(b.base, sentiment_score)
        s1 == IF text_length < ShortTextLen THEN TimesPointSeven(s0) ELSE s0
        l1 == IF text_length < ShortTextLen THEN b.bias_label \o <<LabelShort>>
              ELSE b.bias_label
        s2 == IF text_length > LongTextLen /\ sentiment_score > 7000
              THEN s1 + 10 * 100000 ELSE s1
    IN  [bias_score |-> IntOf(Clamp(s2)), bias_label |-> l1]

-----------------------------------------------------------------------------
(* Specification SpecBias: compute_bias applied to a grid of arguments *)

L_POSITIVE == <<"P","O","S","I","T","I","V","E">>
L_Positive == <<"P","o","s","i","t","i","v","e">>
L_negative == <<"n","e","g","a","t","i","v","e">>
L_NEGATIVE == <<"N","E","G","A","T","I","V","E">>
L_neutral == <<"n","e","u","t","r","a","l">>
L_LABEL_2 == <<"L","A","B","E","L","_","2">>

BiasLabels == {L_POSITIVE, L_Positive, L_negative, L_NEGATIVE, L_neutral, L_LABEL_2, <<>>}
BiasScores == {0, 1000, 1666, 1667, 3500, 5000, 5500, 7000, 7001, 9000, 9876, 10000}
BiasLengths == {0, 49, 50, 100, 499, 500, 501, 2000, 3000, 3001, 4000}

StoreIdle ==
    /\ analyses = {}
    /\ sqlite_sequence = 0
    /\ db_lock = 0
    /\ clock = 0

StoreVars == <<analyses, sqlite_sequence, db_lock, clock>>
WorkerVars == <<pc, req, pending, c_lastrowid, response, nreq>>
QueryVars == <<log, op, ret>>
BiasVars == <<b_in, b_out>>

WorkersIdle ==
    /\ pc = <<>>
    /\ req = <<>>
    /\ pending = <<>>
    /\ c_lastrowid = <<>>
    /\ response = <<>>
    /\ nreq = 0

NoOp == [name |-> "none"]

QueryIdle ==
    /\ log = <<>>
    /\ op = NoOp
    /\ ret = None

BiasIdle ==
    /\ b_in = None
    /\ b_out = None

InitBias ==
    /\ StoreIdle
    /\ WorkersIdle
    /\ QueryIdle
    /\ b_in \in [sentiment_label : BiasLabels,
                 sentiment_score : BiasScores,
                 text_length : BiasLengths]
    /\ b_out = None

CallComputeBias ==
    /\ b_out = None
    /\ b_out' = compute_bias(b_in.sentiment_label, b_in.sentiment_score, b_in.text_length)
    /\ UNCHANGED <<b_in, StoreVars, WorkerVars, QueryVars>>

NextBias == CallComputeBias

SpecBias == InitBias /\ [][NextBias]_vars

-----------------------------------------------------------------------------
(* The record store: table analyses of news.db, src/app.py:17-105 *)

SourceInputMax == 200

\* ids of the committed rows
Ids(table) == {r.id : r \in table}

MaxOf(S) == IF S = {} THEN 0 ELSE CHOOSE x \in S : \A y \in S : y <= x

\* id INTEGER PRIMARY KEY AUTOINCREMENT: one more than the largest rowid the
\* table has ever held (sqlite_sequence), under the writer's lock
NextRowid(table, seq) == Max(seq, MaxOf(Ids(table))) + 1

\* the INSERT tuple with source_input bound whole, the [:200] forgotten
NewRowUntruncated(id, now, a) ==
    [id |-> id,
     created_at |-> now,
     source_type |-> a.source_type,
     source_input |-> a.source_input,
     summary |-> a.summary,
     sentiment_label |-> a.sentiment_label,
     sentiment_score |-> a.sentiment_score,
     bias_score |-> a.bias_score,
     bias_label |-> a.bias_label]

\* the tuple bound to INSERT INTO analyses (...) VALUES (?, ?, ?, ?, ?, ?, ?, ?)
NewRow(id, now, a) ==
    [id |-> id,
     created_at |-> now,
     source_type |-> a.source_type,
     source_input |-> Prefix(a.source_input, SourceInputMax),
     summary |-> a.summary,
     sentiment_label |-> a.sentiment_label,
     sentiment_score |-> a.sentiment_score,
     bias_score |-> a.bias_score,
     bias_label |-> a.bias_label]

\* a save_analysis ending in return c.lastrowid
SaveReturnRowid(rowid) == [type |-> "int", value |-> rowid]

\* what save_analysis hands back to its caller: the function has no return
\* statement
SaveReturn(rowid) == None

RECURSIVE ScanDown(_, _)
\* the rowid b-tree walked backwards from rowid k
ScanDown(table, k) ==
    IF k <= 0 THEN <<>>
    ELSE LET at == {r \in table : r.id = k}
         IN  (IF at = {} THEN <<>> ELSE <<CHOOSE r \in at : TRUE>>)
             \o ScanDown(table, k - 1)

RECURSIVE ScanUp(_, _, _)
ScanUp(table, k, top) ==
    IF k > top THEN <<>>
    ELSE LET at == {r \in table : r.id = k}
         IN  (IF at = {} THEN <<>> ELSE <<CHOOSE r \in at : TRUE>>)
             \o ScanUp(table, k + 1, top)

\* the SELECT with its DESC dropped
OrderByIdAsc(table) == ScanUp(table, 1, MaxOf(Ids(table)))

\* SELECT ... FROM analyses ORDER BY id DESC
OrderByIdDesc(table) == ScanDown(table, MaxOf(Ids(table)))

\* LIMIT ?: a negative limit is no limit in SQLite
Limit(rows, limit) ==
    IF limit < 0 THEN rows ELSE SubSeq(rows, 1, Min(Len(rows), limit))

get_last_analyses(table, limit) == Limit(OrderByIdDesc(table), limit)

get_analysis_by_id(table, analysis_id) ==
    IF \E r \in table : r.id = analysis_id
    THEN CHOOSE r \in table : r.id = analysis_id
    ELSE None

-----------------------------------------------------------------------------
(* Specification Spec: concurrent request workers running index /            *)
(* api_analyze -> perform_analysis -> save_analysis, src/app.py:186-347     *)

MaxRequests == 2

\* two request threads
Workers == {1, 2}

MinTextLen == 50
DetectMax == 1000
SummarizeMax == 2000

\* n characters of article text: words separated by single blanks, no blank at
\* either end
Text(n) == [i \in 1..n |-> IF i % 5 = 0 /\ i < n THEN " " ELSE "a"]
Spaces(n) == [i \in 1..n |-> " "]

\* request.form / JSON body fields
InputTypes == {"url", "text", "other"}
Urls == {<<>>, Spaces(2), <<" ", "u", " ">>}
RawTexts == {<<>>, Spaces(3),
             Spaces(1) \o Text(49) \o Spaces(2),
             Spaces(1) \o Text(50) \o Spaces(2)}

\* what newspaper's Article(url).text can hold after download() and parse()
ArticleTexts == {Text(49), Text(50),
                 Spaces(3) \o Text(47) \o Spaces(3),
                 Text(3001)}

\* outcomes of the external models
Languages == {"en"}
Summaries == {"summary_text"}
ClassifierOutputs == {[label |-> L_POSITIVE, score |-> 9000],
                      [label |-> L_neutral, score |-> 0]}

MsgEmptyIndex == "Lutfen URL veya haber metni girin."
MsgShortIndex == "Haber metni cok kisa. Lutfen daha uzun bir icerik deneyin."
MsgEmptyApi == "URL veya metin zorunlu."
MsgShortApi == "Haber metni cok kisa."

NoReq == [route |-> "none"]

\* a Python str whose content the model does not inspect
Str(s) == [type |-> "str", value |-> s]

\* render_template("index.html", result=result, error_message=error_message)
IndexPage(result, error_message) ==
    [route |-> "index", status |-> 200, result |-> result, error |-> error_message]

\* jsonify({"status": "error", "message": message}), code
ApiError(code, message) ==
    [route |-> "api", status |-> code, result |-> None, error |-> Str(message)]

\* jsonify({"status": "ok", "result": result})
ApiOk(result) ==
    [route |-> "api", status |-> 200, result |-> result, error |-> None]

\* the except Exception clause of the handler the request came through
OnException(route, e) ==
    IF route = "index" THEN IndexPage(None, Str(e)) ELSE ApiError(500, e)

Init ==
    /\ StoreIdle
    /\ QueryIdle
    /\ BiasIdle
    /\ pc = [w \in Workers |-> "idle"]
    /\ req = [w \in Workers |-> NoReq]
    /\ pending = [w \in Workers |-> None]
    /\ c_lastrowid = [w \in Workers |-> 0]
    /\ response = [w \in Workers |-> None]
    /\ nreq = 0

\* the handler returns r; its locals are gone
Respond(w, r) ==
    /\ pc' = [pc EXCEPT ![w] = "responded"]
    /\ response' = [response EXCEPT ![w] = r]
    /\ req' = [req EXCEPT ![w] = NoReq]

\* perform_analysis(source_type, source_input, full_text) is entered
Enter(w, route, source_type, source_input, full_text) ==
    /\ pc' = [pc EXCEPT ![w] = "detect"]
    /\ req' = [req EXCEPT ![w] =
                [route |-> route,
                 source_type |-> source_type,
                 source_input |-> source_input,
                 full_text |-> full_text]]
    /\ UNCHANGED response

\* POST /: lines 254-279 up to the call of perform_analysis
index(w) ==
    /\ pc[w] = "idle"
    /\ nreq < MaxRequests
    /\ nreq' = nreq + 1
    /\ \E input_type \in InputTypes, url \in Urls, raw_text \in RawTexts :
         IF input_type = "url" /\ strip(url) # <<>>
         THEN \/ \* get_article_text_from_url raises
                 /\ Respond(w, IndexPage(None, Str("ArticleException")))
                
              \/ \E full_text \in ArticleTexts :
                   IF Len(full_text) < MinTextLen
                   THEN Respond(w, IndexPage(None, Str(MsgShortIndex)))
                   ELSE Enter(w, "index", "url", strip(url), full_text)
         ELSE IF input_type = "text" /\ strip(raw_text) # <<>>
         THEN LET full_text == strip(raw_text)
              IN  IF Len(full_text) < MinTextLen
                  THEN Respond(w, IndexPage(None, Str(MsgShortIndex)))
                  ELSE Enter(w, "index", "text", strip(raw_text), full_text)
         ELSE Respond(w, IndexPage(None, Str(MsgEmptyIndex)))
    /\ UNCHANGED <<StoreVars, pending, c_lastrowid, QueryVars, BiasVars>>

\* POST /api/analyze: lines 323-347 up to the call of perform_analysis
api_analyze(w) ==
    /\ pc[w] = "idle"
    /\ nreq < MaxRequests
    /\ nreq' = nreq + 1
    /\ \/ \* request.get_json(force=True) raises on a malformed body
          /\ Respond(w, ApiError(500, "BadRequest"))
         
       \/ \E input_type \in InputTypes, url \in Urls, raw_text \in RawTexts :
            IF input_type = "url" /\ strip(url) # <<>>
            THEN \/ \* get_article_text_from_url raises
                    /\ Respond(w, ApiError(500, "ArticleException"))
                   
                 \/ \E full_text \in ArticleTexts :
                      IF Len(full_text) < MinTextLen
                      THEN Respond(w, ApiError(400, MsgShortApi))
                      ELSE Enter(w, "api", "url", strip(url), full_text)
            ELSE IF input_type = "text" /\ strip(raw_text) # <<>>
            THEN LET full_text == strip(raw_text)
                 IN  IF Len(full_text) < MinTextLen
                     THEN Respond(w, ApiError(400, MsgShortApi))
                     ELSE Enter(w, "api", "text", strip(raw_text), full_text)
            ELSE Respond(w, ApiError(400, MsgEmptyApi))
    /\ UNCHANGED <<StoreVars, pending, c_lastrowid, QueryVars, BiasVars>>

\* round(sentiment_score, 3) of a score in ten-thousandths
Round3(s) == ((s + 5) \div 10) * 10

\* detection whose LangDetectException is not caught: it reaches the handler's
\* except Exception
detect_uncaught(w) ==
    /\ pc[w] = "detect"
    /\ \/ /\ \E language \in Languages :
                req' = [req EXCEPT ![w] =
                          [language |-> language,
                           text_length |-> Len(req[w].full_text)] @@ req[w]]
          /\ pc' = [pc EXCEPT ![w] = "summarize"]
          /\ UNCHANGED response
       \/ Respond(w, OnException(req[w].route, "LangDetectException"))
    /\ UNCHANGED <<StoreVars, pending, c_lastrowid, nreq, QueryVars, BiasVars>>

\* perform_analysis lines 187-193: language detection never aborts
detect(w) ==
    /\ pc[w] = "detect"
    /\ LET detect_input == Prefix(req[w].full_text, DetectMax)
       IN  \E language \in Languages \cup {"unknown"} :
             \* "unknown" is the except LangDetectException branch
             req' = [req EXCEPT ![w] =
                       [language |-> language,
                        text_length |-> Len(req[w].full_text)] @@ req[w]]
    /\ pc' = [pc EXCEPT ![w] = "summarize"]
    /\ UNCHANGED <<StoreVars, pending, c_lastrowid, response, nreq, QueryVars, BiasVars>>

\* perform_analysis lines 197-208: the summarizer call
summarize(w) ==
    /\ pc[w] = "summarize"
    /\ LET summarization_input ==
             IF req[w].text_length > SummarizeMax
             THEN Prefix(req[w].full_text, SummarizeMax)
             ELSE req[w].full_text
       IN  \/ \* summarizer(summarization_input, ...) raises
              Respond(w, OnException(req[w].route, "SummarizerError"))
             
           \/ \* it returns a summary; which one is the model's to choose
              \E summary_text \in Summaries :
                /\ req' = [req EXCEPT ![w] = [summary |-> summary_text] @@ req[w]]
                /\ pc' = [pc EXCEPT ![w] = "classify"]
                /\ UNCHANGED response
    /\ UNCHANGED <<StoreVars, pending, c_lastrowid, nreq, QueryVars, BiasVars>>

\* a pipeline that stores the summary before it classifies: a classifier
\* failure leaves a partial row behind
classify_after_save(w) ==
    /\ pc[w] = "classify"
    /\ \/ /\ Respond(w, OnException(req[w].route, "ClassifierError"))
          /\ analyses' = analyses \cup
                {[id |-> NextRowid(analyses, sqlite_sequence), created_at |-> clock,
                  source_type |-> req[w].source_type,
                  source_input |-> Prefix(req[w].source_input, 200),
                  summary |-> req[w].summary]}
          /\ UNCHANGED <<sqlite_sequence, db_lock, clock>>
       \/ /\ \E sentiment_result \in ClassifierOutputs :
               LET bias == compute_bias(sentiment_result.label, sentiment_result.score,
                                        req[w].text_length)
               IN  /\ req' = [req EXCEPT ![w] =
                                [sentiment_label |-> sentiment_result.label,
                                 sentiment_score |-> sentiment_result.score,
                                 bias_score |-> bias.bias_score,
                                 bias_label |-> bias.bias_label] @@ req[w]]
                   /\ pc' = [pc EXCEPT ![w] = "save"]
                   /\ UNCHANGED response
          /\ UNCHANGED StoreVars
    /\ UNCHANGED <<pending, c_lastrowid, nreq, QueryVars, BiasVars>>

\* perform_analysis lines 211-216: sentiment_model on the summary, then
\* compute_bias
classify(w) ==
    /\ pc[w] = "classify"
    /\ \/ \* sentiment_model raises
          /\ Respond(w, OnException(req[w].route, "ClassifierError"))
         
       \/ \E sentiment_result \in ClassifierOutputs :
            LET bias == compute_bias(sentiment_result.label, sentiment_result.score,
                                     req[w].text_length)
            IN  /\ req' = [req EXCEPT ![w] =
                             [sentiment_label |-> sentiment_result.label,
                              sentiment_score |-> sentiment_result.score,
                              bias_score |-> bias.bias_score,
                              bias_label |-> bias.bias_label] @@ req[w]]
                /\ pc' = [pc EXCEPT ![w] = "save"]
                /\ UNCHANGED response
    /\ UNCHANGED <<StoreVars, pending, c_lastrowid, nreq, QueryVars, BiasVars>>

\* an INSERT that takes its rowid without SQLite's write lock
save_insert_unlocked(w) ==
    /\ pc[w] = "save"
    /\ LET rowid == NextRowid(analyses, sqlite_sequence)
       IN  /\ pending' = [pending EXCEPT ![w] = NewRow(rowid, clock, req[w])]
           /\ c_lastrowid' = [c_lastrowid EXCEPT ![w] = rowid]
    /\ db_lock' = w
    /\ clock' = clock + 1
    /\ pc' = [pc EXCEPT ![w] = "commit"]
    /\ UNCHANGED <<analyses, sqlite_sequence, req, response, nreq, QueryVars, BiasVars>>

\* save_analysis lines 46-66: connect and INSERT; the statement takes SQLite's
\* write lock and the AUTOINCREMENT rowid inside its transaction
save_insert(w) ==
    /\ pc[w] = "save"
    /\ db_lock = 0
    /\ LET rowid == NextRowid(analyses, sqlite_sequence)
       IN  /\ pending' = [pending EXCEPT ![w] = NewRow(rowid, clock, req[w])]
           /\ c_lastrowid' = [c_lastrowid EXCEPT ![w] = rowid]
    /\ db_lock' = w
    /\ clock' = clock + 1
    /\ pc' = [pc EXCEPT ![w] = "commit"]
    /\ UNCHANGED <<analyses, sqlite_sequence, req, response, nreq, QueryVars, BiasVars>>

\* save_analysis line 48 while another connection holds the write lock past the
\* busy timeout: sqlite3.OperationalError, database is locked
save_busy(w) ==
    /\ pc[w] = "save"
    /\ db_lock # 0
    /\ Respond(w, OnException(req[w].route, "OperationalError"))
    /\ UNCHANGED <<StoreVars, pending, c_lastrowid, nreq, QueryVars, BiasVars>>

\* the dict perform_analysis returns, lines 230-242
Result(r) ==
    [full_text |-> r.full_text,
     summary |-> r.summary,
     sentiment_label |-> r.sentiment_label,
     sentiment_score |-> Round3(r.sentiment_score),
     bias_score |-> r.bias_score,
     bias_label |-> r.bias_label,
     source_type |-> r.source_type,
     source_input |-> r.source_input,
     language |-> r.language,
     text_length |-> r.text_length]

\* save_analysis lines 67-68 (commit, close), then perform_analysis builds the
\* result and the handler returns it
save_commit(w) ==
    /\ pc[w] = "commit"
    /\ analyses' = analyses \cup {pending[w]}
    /\ sqlite_sequence' = pending[w].id
    /\ db_lock' = 0
    /\ pending' = [pending EXCEPT ![w] = None]
    /\ LET saved == SaveReturn(c_lastrowid[w])
           result == Result(req[w])
       IN  Respond(w, IF req[w].route = "index"
                      THEN IndexPage(result, None) ELSE ApiOk(result))
    /\ UNCHANGED <<clock, c_lastrowid, nreq, QueryVars, BiasVars>>

\* the response has gone out; the worker takes the next request
deliver(w) ==
    /\ pc[w] = "responded"
    /\ pc' = [pc EXCEPT ![w] = "idle"]
    /\ response' = [response EXCEPT ![w] = None]
    /\ c_lastrowid' = [c_lastrowid EXCEPT ![w] = 0]
    /\ UNCHANGED <<StoreVars, req, pending, nreq, QueryVars, BiasVars>>

Next ==
    \/ \E w \in DOMAIN pc : index(w)
    \/ \E w \in DOMAIN pc : api_analyze(w)
    \/ \E w \in DOMAIN pc : detect(w)
    \/ \E w \in DOMAIN pc : summarize(w)
    \/ \E w \in DOMAIN pc : classify(w)
    \/ \E w \in DOMAIN pc : save_insert(w)
    \/ \E w \in DOMAIN pc : save_busy(w)
    \/ \E w \in DOMAIN pc : save_commit(w)
    \/ \E w \in DOMAIN pc : deliver(w)

Spec == Init /\ [][Next]_vars

-----------------------------------------------------------------------------
(* Specification SpecConc: NumSavers threads whose perform_analysis has      *)
(* reached its save_analysis call (line 219), interleaved at the store       *)

NumSavers == 3
MaxSaves == 4

Savers == 1..NumSavers

\* locals of perform_analysis at line 219
LocalsAtSave(route, sentiment_result, full_text) ==
    LET bias == compute_bias(sentiment_result.label, sentiment_result.score,
                             Len(full_text))
    IN  [route |-> route,
         source_type |-> "text",
         source_input |-> full_text,
         full_text |-> full_text,
         language |-> "en",
         text_length |-> Len(full_text),
         summary |-> "summary_text",
         sentiment_label |-> sentiment_result.label,
         sentiment_score |-> sentiment_result.score,
         bias_score |-> bias.bias_score,
         bias_label |-> bias.bias_label]

InitConc ==
    /\ StoreIdle
    /\ QueryIdle
    /\ BiasIdle
    /\ pc = [w \in Savers |-> "idle"]
    /\ req = [w \in Savers |-> NoReq]
    /\ pending = [w \in Savers |-> None]
    /\ c_lastrowid = [w \in Savers |-> 0]
    /\ response = [w \in Savers |-> None]
    /\ nreq = 0

\* a request passes validation, summarization and classification and arrives
\* at save_analysis
reach_save(w) ==
    /\ pc[w] = "idle"
    /\ nreq < MaxSaves
    /\ nreq' = nreq + 1
    /\ \E sentiment_result \in ClassifierOutputs :
         req' = [req EXCEPT ![w] = LocalsAtSave("api", sentiment_result, Text(MinTextLen))]
    /\ pc' = [pc EXCEPT ![w] = "save"]
    /\ UNCHANGED <<StoreVars, pending, c_lastrowid, response, QueryVars, BiasVars>>

NextConc ==
    \/ \E w \in DOMAIN pc : reach_save(w)
    \/ \E w \in DOMAIN pc : save_insert(w)
    \/ \E w \in DOMAIN pc : save_busy(w)
    \/ \E w \in DOMAIN pc : save_commit(w)
    \/ \E w \in DOMAIN pc : deliver(w)

SpecConc == InitConc /\ [][NextConc]_vars

-----------------------------------------------------------------------------
(* Specification SpecStore: the store's operations and the history routes,  *)
(* called one at a time on a database that already holds earlier analyses   *)

MaxStoreSaves == 2
HistoryLimit == 50

\* the keyword arguments perform_analysis passes to save_analysis
ArgsFor(source_type, source_input, sentiment_label, sentiment_score) ==
    LET bias == compute_bias(sentiment_label, sentiment_score, Len(source_input))
    IN  [source_type |-> source_type,
         source_input |-> source_input,
         summary |-> "summary_text",
         sentiment_label |-> sentiment_label,
         sentiment_score |-> sentiment_score,
         bias_score |-> bias.bias_score,
         bias_label |-> bias.bias_label]

StoreArgs == {ArgsFor("text", Text(201), L_Positive, 9000),
              ArgsFor("text", Text(200), L_neutral, 0),
              ArgsFor("url", Text(7), L_LABEL_2, 7001)}

\* rows left in news.db by earlier runs: row i is what the i-th save stored
EarlierLabels == <<L_POSITIVE, L_neutral, L_Positive, L_negative>>
EarlierRow(i) ==
    NewRow(i, i - 1, ArgsFor("url", Text(3), EarlierLabels[(i % 4) + 1], 5000 + i))
EarlierSizes == {0, 5, 50}

QueryLimits == {0 - 1, 0, 5, 50}
QueryIds == {0, 1, 6, 51, 53}

\* request.args.get("sentiment"): absent, or the text given
NoFilter == [given |-> FALSE]
Filter(s) == [given |-> TRUE, text |-> s]
Filters == {NoFilter, Filter(<<>>), Filter(L_POSITIVE),
            Filter(<<"n","e","u">>), Filter(<<"z","z">>)}

InitStore ==
    /\ \E n \in EarlierSizes :
         /\ analyses = {EarlierRow(i) : i \in 1..n}
         /\ sqlite_sequence = n
         /\ clock = n
    /\ db_lock = 0
    /\ WorkersIdle
    /\ BiasIdle
    /\ QueryIdle

\* save_analysis(**a) run to completion: INSERT, commit, close, return
store_save ==
    /\ Len(log) < MaxStoreSaves
    /\ \E a \in StoreArgs :
         LET rowid == NextRowid(analyses, sqlite_sequence)
         IN  /\ analyses' = analyses \cup {NewRow(rowid, clock, a)}
             /\ sqlite_sequence' = rowid
             /\ clock' = clock + 1
             /\ log' = Append(log, [rowid |-> rowid, args |-> a])
             /\ op' = [name |-> "save_analysis", args |-> a]
             /\ ret' = SaveReturn(rowid)
    /\ UNCHANGED <<db_lock, WorkerVars, BiasVars>>

store_get_last ==
    /\ \E limit \in QueryLimits :
         /\ op' = [name |-> "get_last_analyses", limit |-> limit]
         /\ ret' = [type |-> "list", rows |-> get_last_analyses(analyses, limit)]
    /\ UNCHANGED <<StoreVars, WorkerVars, BiasVars, log>>

store_get_by_id ==
    /\ \E analysis_id \in QueryIds :
         /\ op' = [name |-> "get_analysis_by_id", analysis_id |-> analysis_id]
         /\ ret' = get_analysis_by_id(analyses, analysis_id)
    /\ UNCHANGED <<StoreVars, WorkerVars, BiasVars, log>>

\* the filter comparing against the label as stored, its .upper() forgotten
FilterRowsCaseSensitive(rows, sentiment_filter) ==
    SelectSeq(rows, LAMBDA r : Contains(r.sentiment_label, sentiment_filter))

\* rows = [r for r in rows if sentiment_filter in (r[5] or "").upper()]
FilterRows(rows, sentiment_filter) ==
    SelectSeq(rows, LAMBDA r : Contains(upper(r.sentiment_label), sentiment_filter))

\* GET /history, lines 285-294
history(table, f) ==
    LET rows == get_last_analyses(table, HistoryLimit)
    IN  IF f.given /\ f.text # <<>>
        THEN [type |-> "page", status |-> 200,
              rows |-> FilterRows(rows, upper(f.text))]
        ELSE [type |-> "page", status |-> 200, rows |-> rows]

\* GET /api/history, lines 351-368: each row becomes a dict of its columns
api_history(table, limit) ==
    LET rows == get_last_analyses(table, limit)
    IN  [type |-> "json", status |-> 200,
         rows |-> [i \in 1..Len(rows) |->
                     [id |-> rows[i].id,
                      created_at |-> rows[i].created_at,
                      source_type |-> rows[i].source_type,
                      source_input |-> rows[i].source_input,
                      summary |-> rows[i].summary,
                      sentiment_label |-> rows[i].sentiment_label,
                      sentiment_score |-> rows[i].sentiment_score,
                      bias_score |-> rows[i].bias_score,
                      bias_label |-> rows[i].bias_label]]]

store_history ==
    /\ \E f \in Filters :
         /\ op' = [name |-> "history", filter |-> f]
         /\ ret' = history(analyses, f)
    /\ UNCHANGED <<StoreVars, WorkerVars, BiasVars, log>>

store_api_history ==
    /\ \E limit \in QueryLimits :
         /\ op' = [name |-> "api_history", limit |-> limit]
         /\ ret' = api_history(analyses, limit)
    /\ UNCHANGED <<StoreVars, WorkerVars, BiasVars, log>>

NextStore ==
    \/ store_save
    \/ store_get_last
    \/ store_get_by_id
    \/ store_history
    \/ store_api_history

SpecStore == InitStore /\ [][NextStore]_vars

-----------------------------------------------------------------------------
(* Properties *)

InAnalysis == {"detect", "summarize", "classify", "save", "commit"}

IsError(r) == r.error # None

\* the number of committed rows with an id above r's
NewerThan(table, r) == Cardinality({q \in table : q.id > r.id})

Descending(rows) ==
    \A i \in 1..Len(rows) : \A j \in 1..Len(rows) : i < j => rows[i].id > rows[j].id

\* C1: a request that ends in an error response (validation, fetch, summarizer,
\* classifier or store failure) leaves the committed rows as they were and has
\* inserted nothing; the only step that adds to the table is the commit of a
\* request whose summary and sentiment have both been returned, and it adds
\* that request's one row.
C1_FailedRequestWritesNothing ==
    [][\A w \in DOMAIN pc :
         /\ (pc[w] # "responded" /\ pc'[w] = "responded" /\ IsError(response'[w]))
              => /\ analyses' = analyses
                 /\ c_lastrowid[w] = 0
                 /\ pending[w] = None
         /\ (analyses' # analyses /\ pc'[w] # pc[w])
              => /\ pc[w] = "commit"
                 /\ req[w].summary \in Summaries
                 /\ \E o \in ClassifierOutputs :
                      /\ req[w].sentiment_label = o.label
                      /\ req[w].sentiment_score = o.score
                 /\ ~IsError(response'[w])
                 /\ analyses' = analyses \cup {pending[w]}
      ]_vars

C1_Witness ==
    \E w \in DOMAIN pc :
        /\ pc[w] = "responded"
        /\ response[w].error = Str("ClassifierError")
        /\ c_lastrowid[w] = 0
        /\ Cardinality(analyses) = 1

\* C2: no request whose whitespace-trimmed full_text has fewer than 50
\* characters gets past validation into perform_analysis, whichever the source
\* type.
C2_ShortTrimmedTextRejected ==
    \A w \in DOMAIN pc :
        pc[w] \in InAnalysis => Len(strip(req[w].full_text)) >= MinTextLen

\* C3: no two rows, committed or inserted and awaiting commit, carry the same
\* id, and every row a commit adds has an id above every id committed before it
\* and above every id ever assigned.
C3_IdsDistinctAndIncreasing ==
    /\ [](/\ \A r \in analyses : \A q \in analyses : r.id = q.id => r = q
          /\ \A w \in DOMAIN pc :
               pending[w] # None =>
                 /\ pending[w].id \notin Ids(analyses)
                 /\ \A v \in DOMAIN pc :
                      (v # w /\ pending[v] # None) => pending[v].id # pending[w].id)
    /\ [][\A r \in analyses' \ analyses :
            /\ \A q \in analyses : r.id > q.id
            /\ r.id > sqlite_sequence
            /\ sqlite_sequence' = r.id]_vars

C3_Witness ==
    /\ Cardinality(analyses) >= 2
    /\ \E w \in DOMAIN pc : \E v \in DOMAIN pc :
         /\ w # v
         /\ pc[w] = "commit"
         /\ pc[v] = "save"
         /\ pending[w].id = MaxOf(Ids(analyses)) + 1

\* C4 as claimed: save_analysis returns the id the store assigned to the row it
\* inserted.
C4_SaveReturnsAssignedId ==
    op.name = "save_analysis" => ret = [type |-> "int", value |-> sqlite_sequence]

\* C4 as amended: save_analysis stores the row under the id the store assigned
\* and returns nothing (None) to its caller.
C4_SaveReturnsNone ==
    op.name = "save_analysis" =>
        /\ ret = None
        /\ \E r \in analyses :
             /\ r.id = sqlite_sequence
             /\ r.id = log[Len(log)].rowid
             /\ r.summary = op.args.summary
             /\ r.sentiment_label = op.args.sentiment_label
             /\ \A q \in analyses : q.id <= r.id

C4_Witness ==
    /\ op.name = "save_analysis"
    /\ ret = None
    /\ sqlite_sequence = 52
    /\ Cardinality(analyses) = 52

\* C5: every row saved is read back by get_analysis_by_id with the saved
\* source_type, summary, sentiment_label, sentiment_score, bias_score and
\* bias_label, and with the first 200 characters of the saved source_input (all
\* of it when it has at most 200), however many saves have followed.
C5_RoundTrip ==
    /\ \A i \in 1..Len(log) :
         LET a == log[i].args
             r == get_analysis_by_id(analyses, log[i].rowid)
         IN  /\ r # None
             /\ r.id = log[i].rowid
             /\ r.source_type = a.source_type
             /\ r.summary = a.summary
             /\ r.sentiment_label = a.sentiment_label
             /\ r.sentiment_score = a.sentiment_score
             /\ r.bias_score = a.bias_score
             /\ r.bias_label = a.bias_label
             /\ Len(r.source_input) = Min(Len(a.source_input), 200)
             /\ \A k \in 1..Len(r.source_input) : r.source_input[k] = a.source_input[k]
             /\ (Len(a.source_input) <= 200 => r.source_input = a.source_input)
    /\ (op.name = "get_analysis_by_id" /\ \E i \in 1..Len(log) : log[i].rowid = op.analysis_id)
         => /\ ret # None
            /\ ret.id = op.analysis_id
            /\ \E i \in 1..Len(log) :
                 /\ log[i].rowid = ret.id
                 /\ ret.summary = log[i].args.summary
                 /\ ret.sentiment_label = log[i].args.sentiment_label
                 /\ Len(ret.source_input) <= 200

C5_Witness ==
    /\ Len(log) = 2
    /\ Len(log[1].args.source_input) > 200
    /\ op.name = "get_analysis_by_id"
    /\ op.analysis_id = log[1].rowid
    /\ Len(ret.source_input) = 200

\* C6: for a limit >= 0 and a table of n rows, get_last_analyses (and
\* api_history through it) returns min(limit, n) rows, the i-th being the row
\* with the i-th largest id, so the ids descend strictly; limit 0 returns
\* nothing.
C6_GetRecent ==
    (op.name \in {"get_last_analyses", "api_history"} /\ op.limit >= 0) =>
        LET rows == ret.rows
        IN  /\ Len(rows) = Min(op.limit, Cardinality(analyses))
            /\ \A i \in 1..Len(rows) :
                 /\ rows[i] \in analyses
                 /\ NewerThan(analyses, rows[i]) = i - 1
            /\ Descending(rows)
            /\ (op.limit = 0 => rows = <<>>)

C6_Witness ==
    /\ op.name = "get_last_analyses"
    /\ op.limit = 5
    /\ Cardinality(analyses) = 7
    /\ Len(ret.rows) = 5
    /\ ret.rows[1].id = 7
    /\ ret.rows[5].id = 3

\* C7: every bias score compute_bias hands to the pipeline, every one stored in
\* a row and every one returned in a result is an integer from 0 to 100.
C7_BiasScoreClamped ==
    /\ \A r \in analyses : r.bias_score \in 0..100
    /\ \A w \in DOMAIN pc :
         /\ pc[w] \in {"save", "commit"} => req[w].bias_score \in 0..100
         /\ pending[w] # None => pending[w].bias_score \in 0..100
         /\ (pc[w] = "responded" /\ ~IsError(response[w]))
              => response[w].result.bias_score \in 0..100
    /\ \A l \in {L_POSITIVE, L_neutral} : \A s \in {0, 10000} : \A n \in {0, 3001} :
         compute_bias(l, s, n).bias_score \in 0..100

C7_Witness ==
    /\ \E r \in analyses :
         r.bias_score = 0 /\ r.sentiment_score = 0 /\ r.sentiment_label = L_neutral
    /\ \E r \in analyses :
         r.bias_score = 100 /\ r.sentiment_score = 9000 /\ r.sentiment_label = L_POSITIVE

\* C8: with a sentiment filter given, the history page holds exactly the rows
\* among the 50 most recent whose sentiment_label contains the filter, case
\* ignored, in descending id order; it is a normal page also when no row
\* matches.
C8_HistoryFilter ==
    (op.name = "history" /\ op.filter.given) =>
        LET rows == ret.rows
            needle == lower(op.filter.text)
            Match(r) == Contains(lower(r.sentiment_label), needle)
            Recent(r) == NewerThan(analyses, r) < 50
        IN  /\ ret.status = 200
            /\ \A i \in 1..Len(rows) :
                 rows[i] \in analyses /\ Match(rows[i]) /\ Recent(rows[i])
            /\ \A r \in analyses :
                 (Match(r) /\ Recent(r)) => \E i \in 1..Len(rows) : rows[i] = r
            /\ Descending(rows)

C8_Witness ==
    /\ op.name = "history"
    /\ op.filter = Filter(L_POSITIVE)
    /\ Cardinality(analyses) = 52
    /\ \E i \in 1..Len(ret.rows) : ret.rows[i].sentiment_label = L_Positive
    /\ \E r \in analyses : r.sentiment_label = L_neutral
    /\ \E i \in 1..Len(ret.rows) : ret.rows[i].sentiment_label = L_POSITIVE
    /\ \E r \in analyses :
         r.sentiment_label = L_Positive /\ \A i \in 1..Len(ret.rows) : ret.rows[i] # r
    /\ Len(ret.rows) > 1

\* the algorithm of C9, step by step, on a score in ten-thousandths; the
\* running value is in units of 1/100000
ReferenceBias(label, score, textLength) ==
    LET lowered == lower(label)
        base == IF Contains(lowered, positive) THEN 70
                ELSE IF Contains(lowered, negative) THEN 70 ELSE 20
        raw == base * 100000 + (score - 5000) * 600 - DoubleShortfall(base, score)
        penalised == IF textLength < 500
                     THEN (IF raw >= 0 THEN (raw * 7) \div 10
                           ELSE 0 - ((0 - raw) * 7) \div 10)
                     ELSE raw
        boosted == IF textLength > 3000 /\ score > 7000
                   THEN penalised + 1000000 ELSE penalised
        clamped == IF boosted < 0 THEN 0
                   ELSE IF boosted > 10000000 THEN 10000000 ELSE boosted
    IN  clamped \div 100000

\* C9: compute_bias's score is the reference algorithm's: base 70 for a label
\* containing positive or negative (case ignored), else 20; plus
\* (score - 0.5) * 60; times 0.7 under 500 characters; plus 10 over 3000
\* characters with a score over 0.7; clamped to [0, 100], fraction dropped.
\* ("POSITIVE", 0.9, 4000) scores 100 and ("neutral", 0.5, 100) scores 14.
C9_BiasMatchesReference ==
    b_out # None =>
        /\ b_out.bias_score =
             ReferenceBias(b_in.sentiment_label, b_in.sentiment_score, b_in.text_length)
        /\ (b_in = [sentiment_label |-> L_POSITIVE, sentiment_score |-> 9000,
                    text_length |-> 4000] => b_out.bias_score = 100)
        /\ (b_in = [sentiment_label |-> L_neutral, sentiment_score |-> 5000,
                    text_length |-> 100] => b_out.bias_score = 14)
        /\ ~(b_in.text_length < ShortTextLen /\ b_in.text_length > LongTextLen)

C9_Witness ==
    /\ b_out # None
    /\ b_in = [sentiment_label |-> L_POSITIVE, sentiment_score |-> 9000, text_length |-> 4000]
    /\ b_out.bias_score = 100

\* C10: the detection step always hands on to summarization, with language
\* "unknown" when detection fails; a request whose language is "unknown" can
\* only fail on the summarizer, the classifier or the store, and when it
\* commits it returns a result with language "unknown" and has added exactly
\* one row, its own.
C10_DetectionFailureIsRecovered ==
    [][\A w \in DOMAIN pc :
         /\ (pc[w] = "detect" /\ pc'[w] # "detect")
              => /\ pc'[w] = "summarize"
                 /\ req'[w].language \in Languages \cup {"unknown"}
                 /\ analyses' = analyses
         /\ (pc[w] \in {"summarize", "classify", "save", "commit"}
               /\ req[w].language = "unknown" /\ pc'[w] = "responded")
              => IF pc[w] = "commit"
                 THEN /\ ~IsError(response'[w])
                      /\ response'[w].result.language = "unknown"
                      /\ analyses \subseteq analyses'
                      /\ Cardinality(analyses') = Cardinality(analyses) + 1
                      /\ \E r \in analyses' \ analyses :
                           /\ r.id = c_lastrowid[w]
                           /\ r.summary = response'[w].result.summary
                           /\ r.bias_score = response'[w].result.bias_score
                 ELSE /\ response'[w].error \in
                           {Str("SummarizerError"), Str("ClassifierError"),
                            Str("OperationalError")}
                      /\ analyses' = analyses
      ]_vars

C10_Witness ==
    \E w \in DOMAIN pc :
        /\ pc[w] = "responded"
        /\ ~IsError(response[w])
        /\ response[w].result.language = "unknown"
        /\ \E r \in analyses : r.id = c_lastrowid[w]

=============================================================================
